---- MODULE Spec2Model ----
(***************************************************************************)
(* m_find_macs_by_vlans.py: script_main (the batch loop over the device    *)
(* list) and per_device_work (the per-device collection of MAC-table       *)
(* entries of the target VLANs that are not learned on the uplink port).   *)
(*                                                                         *)
(* Texts are sequences of tokens.  A token is a one-character string       *)
(* (digits, letters of a VLAN label, " ", ",", "\n") or a multi-character  *)
(* word whose length TokLen gives.  Files are the token sequences written  *)
(* to them, "\n" included.                                                 *)
(***************************************************************************)
EXTENDS Integers, Sequences, FiniteSets, TLC

\* ------------------------------------------------------------- bounds
\* Devices in the largest inventory.
NumDevices == 2
\* Lines in one command output.
MaxLines == 2
\* Lines the devices of one run return in all their command outputs together.
MaxTotalLines == 3
\* The same, in the runs FairSpec describes.
FairLines == 0

\* ---------------------------------------------------- program constants
\* Width of the VLAN column of a report row (line 104).
VlanWidth == 8
\* Width of the MAC column of a report row (line 106).
MacWidth == 20

\* ------------------------------------------------------------- texts
Whitespace == {" ", "\n"}

Digits == {"0", "1", "2", "3", "4", "5", "6", "7", "8", "9"}

DigitVal(c) ==
    CASE c = "0" -> 0 [] c = "1" -> 1 [] c = "2" -> 2 [] c = "3" -> 3
      [] c = "4" -> 4 [] c = "5" -> 5 [] c = "6" -> 6 [] c = "7" -> 7
      [] c = "8" -> 8 [] c = "9" -> 9

\* len(): the number of characters of a text.  It is taken of VLAN and MAC
\* fields only: the groups of a MAC address have four characters, every
\* other token of these fields has one.
TokLen(t) ==
    CASE t \in {"aaaa", "bbbb", "cccc"} -> 4
      [] OTHER -> 1

RECURSIVE PyLen(_)
PyLen(s) == IF s = <<>> THEN 0 ELSE TokLen(Head(s)) + PyLen(Tail(s))

\* ' ' * n: the empty text when n <= 0.
Spaces(n) == [k \in 1..n |-> " "]

\* str.strip()
RECURSIVE LStrip(_)
LStrip(s) == IF s # <<>> /\ Head(s) \in Whitespace THEN LStrip(Tail(s)) ELSE s

RECURSIVE RStrip(_)
RStrip(s) ==
    IF s # <<>> /\ s[Len(s)] \in Whitespace
    THEN RStrip(SubSeq(s, 1, Len(s) - 1))
    ELSE s

Strip(s) == RStrip(LStrip(s))

\* str.lower(), on the words interface names are made of.
LowerTok(t) ==
    CASE t = "GigabitEthernet" -> "gigabitethernet"
      [] t = "FastEthernet" -> "fastethernet"
      [] t = "Gi" -> "gi"
      [] t = "Fa" -> "fa"
      [] t = "CPU" -> "cpu"
      [] OTHER -> t

Lower(s) == [k \in 1..Len(s) |-> LowerTok(s[k])]

\* str.split(sep): the pieces between the separators, in order.
RECURSIVE SplitFrom(_, _, _)
SplitFrom(s, sep, cur) ==
    IF s = <<>> THEN <<cur>>
    ELSE IF Head(s) = sep THEN <<cur>> \o SplitFrom(Tail(s), sep, <<>>)
    ELSE SplitFrom(Tail(s), sep, Append(cur, Head(s)))

Split(s, sep) == SplitFrom(s, sep, <<>>)

\* int(text): whitespace around the digits is accepted, as is a sign.
IntBody(s) ==
    LET t == Strip(s)
    IN  IF t # <<>> /\ Head(t) \in {"+", "-"} THEN Tail(t) ELSE t

IntOk(s) == IntBody(s) # <<>> /\ \A k \in 1..Len(IntBody(s)) : IntBody(s)[k] \in Digits

RECURSIVE DigitsVal(_, _)
DigitsVal(s, acc) ==
    IF s = <<>> THEN acc ELSE DigitsVal(Tail(s), 10 * acc + DigitVal(Head(s)))

IntVal(s) ==
    LET t == Strip(s)
        v == DigitsVal(IntBody(s), 0)
    IN  IF t # <<>> /\ Head(t) = "-" THEN 0 - v ELSE v

\* ------------------------------------------- securecrt_tools.utilities
\* utilities.long_int_name: the canonical long form of an interface name,
\* whitespace trimmed and case-normalized; an unknown prefix passes through.
LongPrefix(t) ==
    CASE t \in {"Gi", "gi", "GigabitEthernet", "gigabitethernet"} -> "gigabitethernet"
      [] t \in {"Fa", "fa", "FastEthernet", "fastethernet"} -> "fastethernet"
      [] OTHER -> LowerTok(t)

long_int_name(short_name) ==
    LET t == Strip(short_name)
    IN  IF t = <<>> THEN <<>> ELSE <<LongPrefix(Head(t))>> \o Lower(Tail(t))

\* utilities.textfsm_parse_to_list: the recognised lines of an output, in
\* order, as tuples of fields.  A line no rule matches is the empty tuple
\* here and contributes no record.
textfsm_parse_to_list(raw, template_file, add_header) ==
    LET rows == SelectSeq(raw, LAMBDA line : line # <<>>)
    IN  IF add_header THEN <<<<template_file>>>> \o rows ELSE rows

\* utilities.expand_number_range: "1,2,5-7" to the numbers it lists, and the
\* empty text to no number.
RangeTokenOk(tok) ==
    LET parts == Split(tok, "-")
    IN  \/ Len(parts) = 1 /\ IntOk(parts[1])
        \/ /\ Len(parts) = 2
           /\ IntOk(parts[1])
           /\ IntOk(parts[2])
           /\ IntVal(parts[1]) <= IntVal(parts[2])

RangeTokenSet(tok) ==
    LET parts == Split(tok, "-")
    IN  IF Len(parts) = 1 THEN {IntVal(parts[1])}
        ELSE IntVal(parts[1])..IntVal(parts[2])

RangeOk(num_str) ==
    LET toks == Split(num_str, ",")
    IN  num_str = <<>> \/ \A k \in 1..Len(toks) : RangeTokenOk(toks[k])

expand_number_range(num_str) ==
    LET toks == Split(num_str, ",")
    IN  IF num_str = <<>> THEN {}
        ELSE UNION {RangeTokenSet(toks[k]) : k \in 1..Len(toks)}

\* ------------------------------------------------------------ inputs
\* Hostnames of the inventory, and the hostname each device shows in its
\* prompt (session.hostname).
InventoryNames == <<"h1", "h2", "h3", "h4">>

PromptNames == <<"sw1", "sw2", "sw3", "sw4">>

DeviceIndex(name) ==
    CHOOSE d \in 1..Len(InventoryNames) :
        name = InventoryNames[d] \/ name = PromptNames[d]

session_hostname(name) == PromptNames[DeviceIndex(name)]

\* What the operator may type at the VLAN prompt.
NumStrings ==
    { <<>>,
      <<" ">>,
      <<"1", "0">>,
      <<"1", "0", ",", "2", "0">>,
      <<"5", "-", "3">> }

OSFamilies == {"IOS", "NXOS"}

\* None, the value of a proxy that is not given.
NoProxy == "None"

\* What the 'Proxy Session' field of a device record may hold: the record may
\* lack the field (KeyError), hold the empty text, or name a proxy session.
NoProxyField == "KeyError"

ProxyFields == {NoProxyField, "", "jump1"}

\* The setting Global/proxy_session.
default_proxy_session == "jump0"

\* Rows of "show spanning-tree root": the VLAN label is field 0 and the
\* root port field 6.  The root port is empty on the root bridge; an MST
\* instance has a label with no "N".
Vlan10Label == <<"V", "L", "A", "N", "0", "0", "1", "0">>

Vlan20Label == <<"V", "L", "A", "N", "0", "0", "2", "0">>

MstLabel == <<"M", "S", "T", "0">>

Filler == <<"-">>

StpRow(label, port) == <<label, Filler, Filler, Filler, Filler, Filler, port>>

StpRows ==
    { StpRow(Vlan10Label, <<"Gi", "1">>),
      StpRow(Vlan10Label, <<" ", "FastEthernet", "2", " ">>),
      StpRow(Vlan10Label, <<>>),
      StpRow(Vlan20Label, <<"Gi", "1">>),
      StpRow(Vlan20Label, <<" ">>),
      StpRow(MstLabel, <<"Gi", "1">>) }

\* Rows of the MAC table: VLAN, MAC address, interface.
MacAddress == <<"aaaa", ".", "bbbb", ".", "cccc">>

MacRow(vlan, intf) == <<vlan, MacAddress, intf>>

MacRows ==
    { MacRow(<<"1", "0">>, <<"GigabitEthernet", "1">>),
      MacRow(<<"1", "0">>, <<"Fa", "2">>),
      MacRow(<<"1", "0">>, <<>>),
      MacRow(<<"2", "0">>, <<"GigabitEthernet", "1">>),
      MacRow(<<"A", "l", "l">>, <<"CPU">>) }

\* The outputs of at most n lines a command can return: each line is a row the
\* template recognises or a line it does not (the empty tuple).
RawOutputs(rows, n) == UNION { [1..m -> rows \cup {<<>>}] : m \in 0..n }

Min(a, b) == IF a < b THEN a ELSE b

\* Messages of the exceptions the library raises.
Message(kind) ==
    CASE kind = "ConnectError" -> <<" ", "refused", "\n">>
      [] kind = "InteractionError" -> <<"timeout", " ">>
      [] kind = "UnsupportedOSError" -> <<"unknown", " ", "OS">>
      [] OTHER -> <<"invalid">>

\* ------------------------------------------------------------- state
VARIABLES
    pc,               \* the statement script_main or per_device_work is at
    device_list,      \* the inventory: the hostnames, in order
    num_string,       \* the operator's VLAN range
    vlan_set,         \* the target VLAN set
    output_file,      \* the report: the text written to it
    failed_log,       \* the failure log: the text written to it
    i,                \* the index in device_list of the device of this iteration
    hostname,         \* the local hostname of script_main
    connected,        \* the hosts a connection is open to
    os,               \* session.os
    automation_mode,  \* the session is in automation mode
    exclude_ports,    \* per_device_work: VLAN -> uplink interface
    root_results,     \* per_device_work: the parsed spanning-tree root rows
    fsm_results,      \* per_device_work: the parsed MAC-table rows
    k,                \* per_device_work: the index of the next entry of a loop
    results,          \* per_device_work: the matches so far
    matched_macs,     \* script_main: the matches per_device_work returned
    exc,              \* the exception in flight
    lines_left,       \* lines the devices may still return in this run
    attempts,         \* the hostnames connect was called with, in order
    outcome,          \* the outcome of each device of the inventory
    matches,          \* the matches each device returned
    trace,            \* the calls made for the device of this iteration
    flushed,          \* how much of the report has left the buffer of output_file
    use_proxy,        \* the setting Global/use_proxy
    device_proxy,     \* the 'Proxy Session' field of the device of this iteration
    proxy,            \* script_main: the proxy connect is called with
    replaced          \* per_device_work: once the fallback command was sent, the
                      \* parse of the first command and the parse of the fallback

vars ==
    << pc, device_list, num_string, vlan_set, output_file, failed_log, i,
       hostname, connected, os, automation_mode, exclude_ports, root_results,
       fsm_results, k, results, matched_macs, exc, lines_left, attempts,
       outcome, matches, trace, flushed, use_proxy, device_proxy, proxy,
       replaced >>

NoExc == [kind |-> "none", message |-> <<>>]

Raise(kind) == [kind |-> kind, message |-> Message(kind)]

EmptyMap == [v \in {} |-> <<>>]

MapPut(m, key, val) == [v \in DOMAIN m \cup {key} |-> IF v = key THEN val ELSE m[v]]

InitWith(lines, flags) ==
    /\ pc = "main"
    /\ device_list = <<>>
    /\ num_string = <<>>
    /\ vlan_set = {}
    /\ output_file = <<>>
    /\ failed_log = <<>>
    /\ i = 0
    /\ hostname = ""
    /\ connected \in {{}, {"tab"}}
    /\ os = "none"
    /\ automation_mode = FALSE
    /\ exclude_ports = EmptyMap
    /\ root_results = <<>>
    /\ fsm_results = <<>>
    /\ k = 0
    /\ results = <<>>
    /\ matched_macs = <<>>
    /\ exc = NoExc
    /\ lines_left = lines
    /\ attempts = <<>>
    /\ outcome = [d \in 1..NumDevices |-> "none"]
    /\ matches = [d \in 1..NumDevices |-> <<>>]
    /\ trace = <<>>
    /\ flushed = 0
    /\ use_proxy \in flags
    /\ device_proxy = NoProxyField
    /\ proxy = NoProxy
    /\ replaced = <<>>

\* The runs with the setting Global/use_proxy off.
Init == InitWith(MaxTotalLines, {FALSE})

\* ------------------------------------------------------- script_main
HandledKinds == {"ConnectError", "InteractionError", "UnsupportedOSError"}

\* Where an exception raised inside the try block of the device loop goes:
\* to its except clause, or out of script_main.
RaiseTarget(kind) == IF kind \in HandledKinds THEN "except" ELSE "aborted"

\* Lines 48-54: the script refuses to run in a connected tab.
CheckTab ==
    /\ pc = "main"
    /\ IF connected # {}
       THEN pc' = "error" /\ exc' = Raise("ScriptError")
       ELSE pc' = "import" /\ exc' = exc
    /\ UNCHANGED << device_list, num_string, vlan_set, output_file, failed_log,
                    i, hostname, connected, os, automation_mode, exclude_ports,
                    root_results, fsm_results, k, results, matched_macs,
                    lines_left, attempts, outcome, matches, trace >>
    /\ UNCHANGED << flushed, use_proxy, device_proxy, proxy, replaced >>

\* Lines 57-63: the inventory, and the proxy settings as they are; an empty
\* inventory ends the run.
ImportDeviceList ==
    /\ pc = "import"
    /\ \E n \in 0..NumDevices :
        /\ device_list' = SubSeq(InventoryNames, 1, n)
        /\ pc' = IF n = 0 THEN "returned" ELSE "prompt"
    /\ UNCHANGED << num_string, vlan_set, output_file, failed_log, i, hostname,
                    connected, os, automation_mode, exclude_ports, root_results,
                    fsm_results, k, results, matched_macs, exc, lines_left,
                    attempts, outcome, matches, trace >>
    /\ UNCHANGED << flushed, use_proxy, device_proxy, proxy, replaced >>

\* A prompt whose empty answer is expanded like any other.
NoAnswerNever(s) == FALSE

\* Line 67: not num_string.
NoAnswer(s) == s = <<>>

\* A malformed range that does not stop the run.
OnMalformedRangeGoOn == "open"

\* Line 70: nothing in script_main catches what expand_number_range raises.
OnMalformedRange == "aborted"

\* Lines 65-70: the VLAN range; an empty answer ends the run, a malformed one
\* makes expand_number_range raise.
PromptWindow ==
    /\ pc = "prompt"
    /\ \E s \in NumStrings :
        /\ num_string' = s
        /\ IF NoAnswer(s)
           THEN pc' = "returned" /\ vlan_set' = vlan_set /\ exc' = exc
           ELSE IF ~RangeOk(s)
           THEN /\ pc' = OnMalformedRange
                /\ vlan_set' = vlan_set
                /\ exc' = Raise("ValueError")
           ELSE pc' = "open" /\ vlan_set' = expand_number_range(s) /\ exc' = exc
    /\ UNCHANGED << device_list, output_file, failed_log, i, hostname, connected,
                    os, automation_mode, exclude_ports, root_results, fsm_results,
                    k, results, matched_macs, lines_left, attempts, outcome,
                    matches, trace >>
    /\ UNCHANGED << flushed, use_proxy, device_proxy, proxy, replaced >>

\* Line 77: the run header of the report.
ReportHeader(num_str) ==
    <<"MAC ADDRESS SEARCH IN VLANS: ">> \o num_str \o <<"\n", "\n">>

\* Lines 73-77: the report is opened and the run header written to it; the
\* header stays in the buffer of the file.
OpenReport ==
    /\ pc = "open"
    /\ output_file' = ReportHeader(num_string)
    /\ flushed' = 0
    /\ pc' = "for"
    /\ UNCHANGED << device_list, num_string, vlan_set, failed_log, i, hostname,
                    connected, os, automation_mode, exclude_ports, root_results,
                    fsm_results, k, results, matched_macs, exc, lines_left,
                    attempts, outcome, matches, trace >>
    /\ UNCHANGED << use_proxy, device_proxy, proxy, replaced >>

\* A proxy choice that prefers the default proxy whenever the flag is set.
ResolveProxyDefaultFirst(field, flag, default) ==
    IF flag THEN default
    ELSE IF field = NoProxyField THEN NoProxy ELSE field

\* Lines 85-91: the proxy of a device.
ResolveProxy(field, flag, default) ==
    LET own == IF field = NoProxyField THEN NoProxy ELSE field
    IN  IF own \in {NoProxy, ""} /\ flag THEN default ELSE own

\* Lines 79-93: the next device of the list and its proxy, or the end of the
\* loop, where the with block of line 76 closes the report.
ForNext ==
    /\ pc = "for"
    /\ IF i < Len(device_list)
       THEN /\ i' = i + 1
            /\ hostname' = device_list[i + 1]
            /\ \E field \in ProxyFields :
                /\ device_proxy' = field
                /\ proxy' = ResolveProxy(field, use_proxy, default_proxy_session)
            /\ trace' = <<>>
            /\ pc' = "connect"
            /\ UNCHANGED flushed
       ELSE /\ pc' = "done"
            /\ flushed' = Len(output_file)
            /\ UNCHANGED << i, hostname, trace, device_proxy, proxy >>
    /\ UNCHANGED << device_list, num_string, vlan_set, output_file, failed_log,
                    connected, os, automation_mode, exclude_ports, root_results,
                    fsm_results, k, results, matched_macs, exc, lines_left,
                    attempts, outcome, matches >>
    /\ UNCHANGED << use_proxy, replaced >>

\* Line 95: script.connect opens the connection or raises ConnectError.  It
\* is the last to read the device record and the proxy in the iteration.
Connect ==
    /\ pc = "connect"
    /\ attempts' = Append(attempts, hostname)
    /\ trace' = Append(trace, "connect")
    /\ device_proxy' = NoProxyField
    /\ proxy' = NoProxy
    /\ \/ /\ connected' = connected \cup {device_list[i]}
          /\ pc' = "start_cisco_session"
          /\ exc' = exc
       \/ /\ connected' = connected
          /\ pc' = RaiseTarget("ConnectError")
          /\ exc' = Raise("ConnectError")
    /\ UNCHANGED << device_list, num_string, vlan_set, output_file, failed_log,
                    i, hostname, os, automation_mode, exclude_ports,
                    root_results, fsm_results, k, results, matched_macs,
                    lines_left, outcome, matches >>
    /\ UNCHANGED << flushed, use_proxy, replaced >>

\* Line 98: script.disconnect closes the connection, and with it what the
\* session knew of the device, or raises.
ScriptDisconnect ==
    /\ pc = "disconnect"
    /\ trace' = Append(trace, "disconnect")
    /\ \/ /\ connected' = connected \ {device_list[i]}
          /\ os' = "none"
          /\ outcome' = [outcome EXCEPT ![i] = "success"]
          /\ pc' = "write"
          /\ exc' = exc
       \/ /\ connected' = connected
          /\ os' = os
          /\ outcome' = outcome
          /\ pc' = RaiseTarget("InteractionError")
          /\ exc' = Raise("InteractionError")
    /\ UNCHANGED << device_list, num_string, vlan_set, output_file, failed_log,
                    i, hostname, automation_mode, exclude_ports,
                    root_results, fsm_results, k, results, matched_macs,
                    lines_left, attempts, matches >>
    /\ UNCHANGED << flushed, use_proxy, device_proxy, proxy, replaced >>

\* Line 101: the column headings.
ColumnHeading ==
    <<"V", "L", "A", "N">> \o Spaces(4) \o <<"M", "A", "C">> \o Spaces(18)
        \o <<"P", "O", "R", "T", "\n">>

\* Lines 103-108: one row of the table.
ReportRow(line) ==
    line[1] \o Spaces(VlanWidth - PyLen(line[1]))
        \o line[2] \o Spaces(MacWidth - PyLen(line[2]))
        \o line[3] \o <<"\n">>

RECURSIVE ReportRows(_)
ReportRows(lines) ==
    IF lines = <<>> THEN <<>> ELSE ReportRow(Head(lines)) \o ReportRows(Tail(lines))

\* A section that ends with a single newline after its last row.
SectionEndOneNewline == <<"\n">>

\* Line 109: what ends the section of a device.
SectionEnd == <<"\n", "\n">>

\* Lines 100-109: the section of a device.
ReportSection(name, macs) ==
    <<"### Device: ", name, " ###", "\n">> \o ColumnHeading
        \o ReportRows(macs) \o SectionEnd

\* A section for every device that succeeded, matches or not.
WritesSectionAlways(macs) == TRUE

\* Line 99: whether a device gets a section.
WritesSection(macs) == macs # <<>>

\* Lines 99-110: the section is written and the report flushed, or neither.
WriteReport ==
    /\ pc = "write"
    /\ output_file' =
        IF WritesSection(matched_macs)
        THEN output_file \o ReportSection(hostname, matched_macs)
        ELSE output_file
    /\ flushed' = IF WritesSection(matched_macs) THEN Len(output_file') ELSE flushed
    /\ trace' = IF WritesSection(matched_macs) THEN Append(trace, "write") ELSE trace
    /\ pc' = "for"
    /\ UNCHANGED << device_list, num_string, vlan_set, failed_log, i, hostname,
                    connected, os, automation_mode, exclude_ports, root_results,
                    fsm_results, k, results, matched_macs, exc, lines_left,
                    attempts, outcome, matches >>
    /\ UNCHANGED << use_proxy, device_proxy, proxy, replaced >>

\* Lines 113, 117, 121: the line of the failure log.
FailureLine(kind, name, message) ==
    CASE kind = "ConnectError" ->
            <<"<M_SCRIPT> Connect to ", name, " failed: ">> \o Strip(message) \o <<"\n">>
      [] kind = "InteractionError" ->
            <<"<M_SCRIPT> Failure on ", name, ": ">> \o Strip(message) \o <<"\n">>
      [] kind = "UnsupportedOSError" ->
            <<"<M_SCRIPT> Unsupported OS on ", name, ": ">> \o Strip(message) \o <<"\n">>

\* A handler that leaves the connection open.
SessionDisconnectSkipped(conn) == conn

\* Lines 114, 118, 122: session.disconnect() closes the connection of the
\* session.
SessionDisconnect(conn) == {}

\* A handler that ends the batch at the first failure.
AfterExceptStop == "done"

\* Where the device loop goes after an except clause.
AfterExcept == "for"

\* An except clause: the failure line is appended to the log and the session
\* is disconnected, which ends the terminal settings of the connection.
Handle(kind) ==
    /\ pc = "except"
    /\ exc.kind = kind
    /\ failed_log' = failed_log \o FailureLine(kind, hostname, exc.message)
    /\ connected' = SessionDisconnect(connected)
    /\ os' = "none"
    /\ automation_mode' = FALSE
    /\ outcome' = [outcome EXCEPT ![i] = kind]
    /\ exc' = NoExc
    /\ pc' = AfterExcept
    /\ UNCHANGED << device_list, num_string, vlan_set, output_file, i, hostname,
                    exclude_ports, root_results, fsm_results, k, results,
                    matched_macs, lines_left, attempts, matches, trace >>
    /\ UNCHANGED << flushed, use_proxy, device_proxy, proxy, replaced >>

\* Lines 111-114.
ExceptConnectError == Handle("ConnectError")

\* Lines 115-118.
ExceptInteractionError == Handle("InteractionError")

\* Lines 119-122.
ExceptUnsupportedOSError == Handle("UnsupportedOSError")

\* --------------------------------------------------- per_device_work
\* The locals of per_device_work exist only while it runs.
NoLocals ==
    /\ exclude_ports' = EmptyMap
    /\ root_results' = <<>>
    /\ fsm_results' = <<>>
    /\ k' = 0
    /\ results' = <<>>
    /\ replaced' = <<>>

\* An exception leaves per_device_work for the try block of script_main: of
\* the handlers of lines 111-122, or none, and then the with block of line 76
\* closes the report on the way out.
RaiseOut(kind) ==
    /\ pc' = RaiseTarget(kind)
    /\ exc' = Raise(kind)
    /\ flushed' = IF RaiseTarget(kind) = "aborted" THEN Len(output_file) ELSE flushed
    /\ NoLocals

\* session.get_command_output: the device answers with an output or the
\* exchange fails.  The environment chooses; RawOutputs bounds the answer.
Answers(rows) == RawOutputs(rows, Min(MaxLines, lines_left))

\* Line 136: start_cisco_session enters automation mode, or raises.
StartCiscoSession ==
    /\ pc = "start_cisco_session"
    /\ trace' = Append(trace, "start_cisco_session")
    /\ \/ /\ \E family \in OSFamilies : os' = family
          /\ automation_mode' = TRUE
          /\ pc' = "stp_command"
          /\ UNCHANGED << exc, exclude_ports, root_results, fsm_results, k, results,
                          flushed, replaced >>
       \/ /\ \E kind \in {"InteractionError", "UnsupportedOSError"} : RaiseOut(kind)
          /\ UNCHANGED << os, automation_mode >>
    /\ UNCHANGED << device_list, num_string, vlan_set, output_file, failed_log,
                    i, hostname, connected, matched_macs, lines_left, attempts,
                    outcome, matches >>
    /\ UNCHANGED << use_proxy, device_proxy, proxy >>

\* Lines 141-151: "show spanning-tree root" and its parse.
SendSpanningTreeRoot ==
    /\ pc = "stp_command"
    /\ trace' = Append(trace, "show spanning-tree root")
    /\ \/ /\ \E raw \in Answers(StpRows) :
                /\ root_results' =
                    textfsm_parse_to_list(
                        raw, "cisco_os_show_spanning-tree_root.template", FALSE)
                /\ lines_left' = lines_left - Len(raw)
          /\ exclude_ports' = EmptyMap
          /\ k' = 1
          /\ pc' = "stp_loop"
          /\ UNCHANGED << exc, fsm_results, results, flushed, replaced >>
       \/ /\ RaiseOut("InteractionError")
          /\ UNCHANGED lines_left
    /\ UNCHANGED << device_list, num_string, vlan_set, output_file, failed_log,
                    i, hostname, connected, os, automation_mode, matched_macs,
                    attempts, outcome, matches >>
    /\ UNCHANGED << use_proxy, device_proxy, proxy >>

\* Line 155: vlan_string.split("N")[1] exists.
LabelHasIndex(vlan_string) == Len(Split(vlan_string, "N")) >= 2

\* Line 155: int() accepts it.
LabelIsInt(vlan_string) == IntOk(Split(vlan_string, "N")[2])

\* Line 155.
LabelVlan(vlan_string) == IntVal(Split(vlan_string, "N")[2])

\* Line 156.
EntryUplink(entry) == Strip(long_int_name(entry[7]))

\* An uplink map that keeps the first root port seen for a VLAN.
UplinkUpdateFirstWins(exclude, entry) ==
    IF EntryUplink(entry) # <<>> /\ LabelVlan(entry[1]) \notin DOMAIN exclude
    THEN MapPut(exclude, LabelVlan(entry[1]), EntryUplink(entry))
    ELSE exclude

\* Lines 154-158: what one spanning-tree root entry does to exclude_ports.
UplinkUpdate(exclude, entry) ==
    IF EntryUplink(entry) # <<>>
    THEN MapPut(exclude, LabelVlan(entry[1]), EntryUplink(entry))
    ELSE exclude

\* Lines 153-158: one pass of the loop over root_results, or its end.
\* Nothing reads root_results after the loop: it is dropped there.
SpanningTreeLoop ==
    /\ pc = "stp_loop"
    /\ IF k > Len(root_results)
       THEN /\ pc' = "mac_command"
            /\ root_results' = <<>>
            /\ UNCHANGED << exclude_ports, fsm_results, k, results, exc, flushed,
                            replaced >>
       ELSE IF ~LabelHasIndex(root_results[k][1])
       THEN RaiseOut("IndexError")
       ELSE IF ~LabelIsInt(root_results[k][1])
       THEN RaiseOut("ValueError")
       ELSE /\ exclude_ports' = UplinkUpdate(exclude_ports, root_results[k])
            /\ k' = k + 1
            /\ pc' = "stp_loop"
            /\ UNCHANGED << root_results, fsm_results, results, exc, flushed,
                            replaced >>
    /\ UNCHANGED << device_list, num_string, vlan_set, output_file, failed_log,
                    i, hostname, connected, os, automation_mode, matched_macs,
                    lines_left, attempts, outcome, matches, trace >>
    /\ UNCHANGED << use_proxy, device_proxy, proxy >>

\* Lines 161-164: the MAC-table template of the OS family.
MacTemplate(family) ==
    IF family = "NXOS"
    THEN "cisco_nxos_show_mac_addr_table.template"
    ELSE "cisco_ios_show_mac_addr_table.template"

\* Lines 166-167: "show mac address-table" and its parse.
SendMacTable ==
    /\ pc = "mac_command"
    /\ trace' = Append(trace, "show mac address-table")
    /\ \/ /\ \E raw \in Answers(MacRows) :
                /\ fsm_results' = textfsm_parse_to_list(raw, MacTemplate(os), FALSE)
                /\ lines_left' = lines_left - Len(raw)
          /\ pc' = "retry"
          /\ UNCHANGED << exc, exclude_ports, root_results, k, results, flushed,
                          replaced >>
       \/ /\ RaiseOut("InteractionError")
          /\ UNCHANGED lines_left
    /\ UNCHANGED << device_list, num_string, vlan_set, output_file, failed_log,
                    i, hostname, connected, os, automation_mode, matched_macs,
                    attempts, outcome, matches >>
    /\ UNCHANGED << use_proxy, device_proxy, proxy >>

\* Line 171: when the fallback command is sent.
NeedsFallback(family, parsed) == family = "IOS" /\ Len(parsed) = 1

\* A fallback parse that is added to the primary parse.
FallbackParseAdded(primary, fallback) == primary \o fallback

\* Line 175: the assignment gives fsm_results the fallback parse.
FallbackParse(primary, fallback) == fallback

\* A fallback that is followed by the test of line 171 once more.
AfterFallbackAgain == "retry"

\* Lines 175-178: the filter follows the fallback.
AfterFallback == "filter_loop"

\* Lines 171-178: the fallback command and its parse, when the first parse
\* calls for it; then the filter loop starts.
RetryMacTable ==
    /\ pc = "retry"
    /\ IF NeedsFallback(os, fsm_results)
       THEN /\ trace' = Append(trace, "show mac-address-table dynamic")
            /\ \/ /\ \E raw \in Answers(MacRows) :
                        LET parsed == textfsm_parse_to_list(raw, MacTemplate(os), FALSE)
                        IN  /\ fsm_results' = FallbackParse(fsm_results, parsed)
                            /\ replaced' = <<fsm_results, parsed>>
                            /\ lines_left' = lines_left - Len(raw)
                  /\ results' = <<>>
                  /\ k' = 1
                  /\ pc' = AfterFallback
                  /\ UNCHANGED << exc, exclude_ports, root_results, flushed >>
               \/ /\ RaiseOut("InteractionError")
                  /\ UNCHANGED lines_left
       ELSE /\ results' = <<>>
            /\ k' = 1
            /\ pc' = "filter_loop"
            /\ UNCHANGED << fsm_results, lines_left, trace, exc, exclude_ports,
                            root_results, flushed, replaced >>
    /\ UNCHANGED << device_list, num_string, vlan_set, output_file, failed_log,
                    i, hostname, connected, os, automation_mode, matched_macs,
                    attempts, outcome, matches >>
    /\ UNCHANGED << use_proxy, device_proxy, proxy >>

\* A lookup that falls back on the uplink of another VLAN.
UplinkOfStale(exclude, vlan) ==
    IF vlan \in DOMAIN exclude THEN exclude[vlan]
    ELSE IF DOMAIN exclude # {} THEN exclude[CHOOSE v \in DOMAIN exclude : TRUE]
    ELSE <<>>

\* Lines 186-189: the uplink of a VLAN, "" when the map has none.
UplinkOf(exclude, vlan) == IF vlan \in DOMAIN exclude THEN exclude[vlan] ELSE <<>>

\* A filter that compares the interface field as it stands in the table.
KeepsEntryRawInterface(entry, vlans, exclude) ==
    /\ IntOk(entry[1])
    /\ IntVal(entry[1]) \in vlans
    /\ entry[3] # UplinkOf(exclude, IntVal(entry[1]))

\* An interface of the MAC table that is compared without its long name.
MacIntfShortName(entry) == Lower(Strip(entry[3]))

\* Line 191: mac_intf.
MacIntf(entry) == Lower(long_int_name(entry[3]))

\* Line 192: uplink_intf.
UplinkIntf(uplink) == Lower(Strip(uplink))

\* Lines 180-194: whether the filter keeps a MAC-table entry.
KeepsEntry(entry, vlans, exclude) ==
    /\ IntOk(entry[1])
    /\ IntVal(entry[1]) \in vlans
    /\ MacIntf(entry) # UplinkIntf(UplinkOf(exclude, IntVal(entry[1])))

\* Lines 179-194: one pass of the loop over fsm_results, or its end.
FilterLoop ==
    /\ pc = "filter_loop"
    /\ IF k > Len(fsm_results)
       THEN /\ pc' = "end_cisco_session"
            /\ UNCHANGED << results, k >>
       ELSE /\ results' =
                IF KeepsEntry(fsm_results[k], vlan_set, exclude_ports)
                THEN Append(results, fsm_results[k])
                ELSE results
            /\ k' = k + 1
            /\ pc' = "filter_loop"
    /\ UNCHANGED << device_list, num_string, vlan_set, output_file, failed_log,
                    i, hostname, connected, os, automation_mode, exclude_ports,
                    root_results, fsm_results, matched_macs, exc, lines_left,
                    attempts, outcome, matches, trace >>
    /\ UNCHANGED << flushed, use_proxy, device_proxy, proxy, replaced >>

\* A match list that grows from device to device.
ReturnedMatchesAdded(previous, found) == previous \o found

\* Line 97: the assignment gives matched_macs the list per_device_work
\* returns, whatever it held of the device before.
ReturnedMatches(previous, found) == found

\* A loop body that writes the section before it disconnects.
AfterReturnWrite == "write"

\* Line 98 follows the return of per_device_work.
AfterReturn == "disconnect"

\* Lines 197-199 and the assignment of line 97: end_cisco_session leaves
\* automation mode and per_device_work returns, or end_cisco_session raises.
EndCiscoSession ==
    /\ pc = "end_cisco_session"
    /\ trace' = Append(trace, "end_cisco_session")
    /\ \/ /\ automation_mode' = FALSE
          /\ hostname' = session_hostname(hostname)
          /\ matched_macs' = ReturnedMatches(matched_macs, results)
          /\ matches' = [matches EXCEPT ![i] = matched_macs']
          /\ pc' = AfterReturn
          /\ exc' = exc
          /\ flushed' = flushed
          /\ NoLocals
       \/ /\ RaiseOut("InteractionError")
          /\ UNCHANGED << automation_mode, hostname, matched_macs, matches >>
    /\ UNCHANGED << device_list, num_string, vlan_set, output_file, failed_log,
                    i, connected, os, lines_left, attempts, outcome >>
    /\ UNCHANGED << use_proxy, device_proxy, proxy >>

\* ----------------------------------------------------- specification
Next ==
    \/ CheckTab
    \/ ImportDeviceList
    \/ PromptWindow
    \/ OpenReport
    \/ ForNext
    \/ Connect
    \/ StartCiscoSession
    \/ SendSpanningTreeRoot
    \/ SpanningTreeLoop
    \/ SendMacTable
    \/ RetryMacTable
    \/ FilterLoop
    \/ EndCiscoSession
    \/ ScriptDisconnect
    \/ WriteReport
    \/ ExceptConnectError
    \/ ExceptInteractionError
    \/ ExceptUnsupportedOSError

Spec == Init /\ [][Next]_vars

\* The interpreter runs the script to its end: a step that can be taken is
\* taken.  The runs in which the devices return FairLines lines in all.
FairSpec == InitWith(FairLines, {FALSE}) /\ [][Next]_vars /\ WF_vars(Next)

\* The runs with the setting Global/use_proxy on or off, in which the devices
\* return FairLines lines in all.
ProxySpec == InitWith(FairLines, BOOLEAN) /\ [][Next]_vars

\* ------------------------------------------------------------ claims
\* The device loop has been left through an exception no except clause of
\* script_main names (none of the four outcomes of a device).
Aborted == pc = "aborted"

InLoop ==
    pc \notin {"main", "import", "prompt", "open", "returned", "error"}
        /\ ~(Aborted /\ i = 0)

FailedDevice(d) == outcome[d] \in HandledKinds

\* The lines of a file: the texts its newlines end.
FileLines(file) ==
    LET pieces == Split(file, "\n") IN SubSeq(pieces, 1, Len(pieces) - 1)

\* The devices 1..n that satisfy Test, in inventory order.
DevicesWhere(Test(_), n) == SelectSeq([d \in 1..n |-> d], Test)

\* C1: whatever outcome each device has among success, ConnectError,
\* InteractionError and UnsupportedOSError, the device loop calls connect for
\* every device of the inventory exactly once, in inventory order, and then
\* ends: after a failure the loop goes on with the next device and never
\* connects to the same device again.  (An exception that is none of the
\* four outcomes leaves the loop: Aborted.)
C1_AttemptsInOrder ==
    /\ attempts = SubSeq(device_list, 1, Len(attempts))
    /\ InLoop => Len(attempts) \in {i - 1, i}
    /\ pc = "for" => Len(attempts) = i
    /\ pc = "done" => attempts = device_list

C1_EveryDeviceOnce ==
    /\ []C1_AttemptsInOrder
    /\ (pc = "for") ~> (pc = "done" \/ Aborted)

C1_Witness ==
    /\ pc = "done"
    /\ Len(device_list) = NumDevices
    /\ FailedDevice(1)
    /\ attempts = device_list

\* C2: when the device loop has finished, the report is the run header
\* followed by one section for each device that succeeded with at least one
\* match, in inventory order, and the failure log holds one line for each
\* device that failed; no device is in both files and a device that
\* succeeded without a match is in neither.
C2_SectionDevices ==
    LET lines == FileLines(output_file)
        heads == SelectSeq(lines, LAMBDA l : l # <<>> /\ l[1] = "### Device: ")
    IN  [n \in 1..Len(heads) |-> DeviceIndex(heads[n][2])]

C2_FailureDevices ==
    LET lines == FileLines(failed_log)
    IN  [n \in 1..Len(lines) |-> DeviceIndex(lines[n][2])]

C2_HasMatches(d) == outcome[d] = "success" /\ matches[d] # <<>>

C2_ReportAndLog ==
    pc = "done" =>
        /\ SubSeq(output_file, 1, Len(ReportHeader(num_string))) = ReportHeader(num_string)
        /\ C2_SectionDevices = DevicesWhere(C2_HasMatches, Len(device_list))
        /\ C2_FailureDevices = DevicesWhere(FailedDevice, Len(device_list))
        /\ \A n \in 1..Len(FileLines(failed_log)) : FileLines(failed_log)[n] # <<>>

C2_Witness ==
    /\ pc = "done"
    /\ Len(device_list) = NumDevices
    /\ \E d \in 1..NumDevices : C2_HasMatches(d)
    /\ \E d \in 1..NumDevices : FailedDevice(d)

\* C3: once per_device_work has entered automation mode, it has left
\* automation mode again whenever control is back in script_main: on the
\* normal return, in an except clause, or when an exception leaves the loop.
C3_AutomationModeLeft ==
    pc \in {"disconnect", "except", "aborted"} => ~automation_mode

\* C4: the devices are handled one after the other: at most one connection
\* is open at any time, and none is open when connect is called.
C4_OneSessionAtATime ==
    /\ Cardinality(connected) <= 1
    /\ pc = "connect" => connected = {}

C4_Witness ==
    /\ pc = "connect"
    /\ i = 2
    /\ outcome[1] = "InteractionError"

\* C5: on an IOS device the fallback command "show mac-address-table dynamic"
\* is sent exactly when the parse of "show mac address-table" gave at most one
\* record (none or one); with two or more records it is not sent.
C5_FallbackSent ==
    trace # <<>> /\ trace[Len(trace)] = "show mac-address-table dynamic"

C5_FallbackWhenAtMostOne ==
    [][(pc = "retry" /\ os = "IOS") => ((Len(fsm_results) <= 1) <=> C5_FallbackSent')]_vars

\* C6: the match list per_device_work returns is the parsed MAC-table
\* records, unchanged and in table order, whose VLAN field is an integer of
\* the target set and whose normalized interface differs from the uplink
\* recorded for that VLAN (the empty text when none is recorded); a record
\* with a non-numeric VLAN field is passed over without an error.
C6_Selected(entry) ==
    /\ IntOk(entry[1])
    /\ IntVal(entry[1]) \in vlan_set
    /\ long_int_name(entry[3]) #
         (IF IntVal(entry[1]) \in DOMAIN exclude_ports
          THEN exclude_ports[IntVal(entry[1])]
          ELSE <<>>)

C6_ReturnsSelection ==
    [][(pc = "end_cisco_session" /\ pc' = "disconnect")
          => matched_macs' = SelectSeq(fsm_results, C6_Selected)]_vars

C6_Witness ==
    /\ pc = "end_cisco_session"
    /\ Len(fsm_results) = 2
    /\ Len(results) = 1
    /\ results[1] = fsm_results[2]
    /\ ~IntOk(fsm_results[1][1]) \/ IntVal(fsm_results[1][1]) \in DOMAIN exclude_ports

\* The records of a table whose VLAN field is the integer vlan.
C7_OfVlan(table, vlan) ==
    SelectSeq(table, LAMBDA e : IntOk(e[1]) /\ IntVal(e[1]) = vlan)

C8_MalformedLabelSkipped ==
    ~(Aborted /\ exc.kind \in {"IndexError", "ValueError"} /\ i >= 1)

\* C9: when the spanning-tree root records have been handled, the uplink map
\* has VLAN v exactly when some record of v has a root port that is not empty
\* after normalization, and gives v the normalized root port of the last such
\* record; a record with an empty root port adds nothing.
C9_Handled == SubSeq(root_results, 1, k - 1)

C9_WithUplink(vlan) ==
    { n \in 1..Len(C9_Handled) :
        /\ LabelVlan(C9_Handled[n][1]) = vlan
        /\ long_int_name(C9_Handled[n][7]) # <<>> }

C9_Last(set) == CHOOSE n \in set : \A m \in set : m <= n

C9_UplinkMap ==
    pc = "stp_loop" =>
        /\ DOMAIN exclude_ports =
            { vlan \in { LabelVlan(C9_Handled[n][1]) : n \in 1..Len(C9_Handled) } :
                C9_WithUplink(vlan) # {} }
        /\ \A vlan \in DOMAIN exclude_ports :
            exclude_ports[vlan] =
                long_int_name(C9_Handled[C9_Last(C9_WithUplink(vlan))][7])

C9_Witness ==
    /\ pc = "stp_loop"
    /\ Len(root_results) = 2
    /\ k = 3
    /\ root_results[1][1] = root_results[2][1]
    /\ root_results[1][7] # root_results[2][7]
    /\ long_int_name(root_results[1][7]) # <<>>
    /\ long_int_name(root_results[2][7]) # <<>>

\* What the step that handles the report wrote to it, as lines.
C10_Written == SubSeq(output_file', Len(output_file) + 1, Len(output_file'))

\* Left-justified in a column: padded with spaces up to the width.
C10_LJust(text, width) == text \o Spaces(width - PyLen(text))

C10_RowLines(macs) ==
    [n \in 1..Len(macs) |->
        C10_LJust(macs[n][1], VlanWidth) \o C10_LJust(macs[n][2], MacWidth) \o macs[n][3]]

C10_HeadLines ==
    << <<"### Device: ", hostname, " ###">>,
       SubSeq(ColumnHeading, 1, Len(ColumnHeading) - 1) >>

\* C10 as stated: for a device with n >= 1 matches, what is written to the
\* report is the device header line, the column-heading line, n rows in match
\* order, and one blank line; nothing else.
C10_SectionOneBlank ==
    [][(pc = "write" /\ matched_macs # <<>>)
          => /\ C10_Written[Len(C10_Written)] = "\n"
             /\ FileLines(C10_Written) =
                  C10_HeadLines \o C10_RowLines(matched_macs) \o << <<>> >>]_vars

\* C10 as amended: for a device with n >= 1 matches, what is written to the
\* report is the device header line, the column-heading line, n rows in match
\* order, and two blank lines; nothing else.
C10_SectionTwoBlanks ==
    [][(pc = "write" /\ matched_macs # <<>>)
          => /\ C10_Written[Len(C10_Written)] = "\n"
             /\ FileLines(C10_Written) =
                  C10_HeadLines \o C10_RowLines(matched_macs) \o << <<>>, <<>> >>]_vars

C10_Witness ==
    /\ pc = "for"
    /\ i >= 1
    /\ outcome[i] = "success"
    /\ Len(matches[i]) = 2
    /\ Len(output_file) > Len(ReportHeader(num_string))

\* C11: when the device loop starts a device, all that was written to the
\* report so far (the run header and the sections of the devices before) has
\* been flushed.
C11_FlushedAtNextDevice ==
    pc = "connect" => flushed = Len(output_file)

\* C12: when the operator's answer is empty, or the target VLAN set it
\* expands to is empty, the run ends there: connect is called for no device
\* and no connection is opened.
C12_EmptyEndsRun ==
    (pc \notin {"main", "import", "prompt", "error"}
        /\ (num_string = <<>> \/ vlan_set = {}))
    => /\ pc \in {"returned", "aborted"}
       /\ attempts = <<>>
       /\ connected = {}

C12_Witness ==
    /\ pc = "returned"
    /\ Len(device_list) = NumDevices
    /\ num_string = <<>>

\* C13: connect is called with the device's own proxy when its record names
\* one; otherwise with the default proxy when use_proxy is set; otherwise with
\* no proxy.
C13_OwnProxy == device_proxy \notin {NoProxyField, ""}

C13_ProxyPassed ==
    pc = "connect" =>
        /\ C13_OwnProxy => proxy = device_proxy
        /\ (~C13_OwnProxy /\ use_proxy) => proxy = default_proxy_session
        /\ (~C13_OwnProxy /\ ~use_proxy) => proxy \in {NoProxy, ""}
        /\ ~use_proxy => proxy # default_proxy_session

C13_Witness ==
    /\ pc = "connect"
    /\ i = 2
    /\ use_proxy
    /\ device_proxy = "jump1"
    /\ proxy = "jump1"

\* Two interface texts denote the same interface up to abbreviation, letter
\* case and surrounding whitespace.
C14_Kind(word) ==
    CASE word \in {"Gi", "gi", "GigabitEthernet", "gigabitethernet"} -> "gigabit"
      [] word \in {"Fa", "fa", "FastEthernet", "fastethernet"} -> "fast"
      [] OTHER -> LowerTok(word)

C14_Denotes(text) ==
    LET t == Strip(text)
    IN  IF t = <<>> THEN <<>> ELSE <<C14_Kind(Head(t))>> \o Lower(Tail(t))

C14_Same(a, b) == C14_Denotes(a) = C14_Denotes(b)

C14_Range(seq) == { seq[n] : n \in 1..Len(seq) }

\* C14: the uplink recorded for a VLAN denotes the same interface as the root
\* port field of a spanning-tree root record of that VLAN, and a MAC-table
\* record of a target VLAN whose interface field denotes the same interface
\* as the uplink of its VLAN is not in the result, however the two texts are
\* written.
C14_SameInterfaceExcluded ==
    /\ pc = "stp_loop" =>
        \A vlan \in DOMAIN exclude_ports :
            \E n \in 1..(k - 1) :
                /\ LabelVlan(root_results[n][1]) = vlan
                /\ C14_Same(root_results[n][7], exclude_ports[vlan])
    /\ pc = "filter_loop" =>
        \A n \in 1..(k - 1) :
            LET entry == fsm_results[n]
            IN  (/\ IntOk(entry[1])
                 /\ IntVal(entry[1]) \in vlan_set \cap DOMAIN exclude_ports
                 /\ C14_Same(entry[3], exclude_ports[IntVal(entry[1])]))
                => entry \notin C14_Range(results)

C14_Witness ==
    /\ pc = "filter_loop"
    /\ k = 2
    /\ IntOk(fsm_results[1][1])
    /\ IntVal(fsm_results[1][1]) \in vlan_set \cap DOMAIN exclude_ports
    /\ fsm_results[1][3] # exclude_ports[IntVal(fsm_results[1][1])]
    /\ Lower(fsm_results[1][3]) # Lower(exclude_ports[IntVal(fsm_results[1][1])])
    /\ C14_Same(fsm_results[1][3], exclude_ports[IntVal(fsm_results[1][1])])
    /\ results = <<>>

\* The commands of a kind among the calls made for the device.
C15_Count(calls, names) == Cardinality({ n \in 1..Len(calls) : calls[n] \in names })

C15_Fallback == {"show mac-address-table dynamic"}

C15_MacCommands == {"show mac address-table", "show mac-address-table dynamic"}

\* C15: the fallback command is sent at most once to a device and never to a
\* device that is not IOS; at most two MAC-table commands are sent to a device.
C15_FallbackAtMostOnce ==
    /\ C15_Count(trace, C15_Fallback) <= 1
    /\ C15_Count(trace, C15_MacCommands) <= 2
    /\ os \in OSFamilies \ {"IOS"} => C15_Count(trace, C15_Fallback) = 0

C15_Witness ==
    /\ pc = "filter_loop"
    /\ os = "IOS"
    /\ C15_Count(trace, C15_Fallback) = 1
    /\ Len(fsm_results) = 1

\* text stands in line at character offset off.
C16_StartsAt(line, off, text) ==
    \E j \in 0..Len(line) :
        /\ PyLen(SubSeq(line, 1, j)) = off
        /\ SubSeq(line, j + 1, j + Len(text)) = text

C16_Lines == FileLines(SubSeq(output_file', Len(output_file) + 1, Len(output_file')))

\* C16: in the column-heading line and in every row of a section, the MAC
\* column starts at character offset 8 and the PORT column at offset 28.
C16_ColumnsAligned ==
    [][(pc = "write" /\ matched_macs # <<>>)
          => /\ C16_StartsAt(C16_Lines[2], VlanWidth, <<"M", "A", "C">>)
             /\ C16_StartsAt(C16_Lines[2], VlanWidth + MacWidth, <<"P", "O", "R", "T">>)
             /\ \A n \in 1..Len(matched_macs) :
                    /\ C16_StartsAt(C16_Lines[2 + n], VlanWidth, matched_macs[n][2])
                    /\ C16_StartsAt(C16_Lines[2 + n], VlanWidth + MacWidth,
                                    matched_macs[n][3])]_vars

\* C17: the target VLAN set is the expansion of the operator's answer, made
\* before connect is called for the first device, and no step of the device
\* loop or of per_device_work changes it; when the expansion fails the run
\* is left with no device contacted.
C17_TargetSetFixed ==
    /\ [](/\ attempts # <<>> =>
                /\ RangeOk(num_string)
                /\ vlan_set = expand_number_range(num_string)
          /\ ~RangeOk(num_string) =>
                /\ pc = "aborted"
                /\ attempts = <<>>
                /\ connected = {})
    /\ [][pc # "prompt" => vlan_set' = vlan_set]_vars

C17_Witness ==
    /\ pc = "filter_loop"
    /\ i = 2
    /\ k = 2
    /\ vlan_set = {10, 20}
    /\ outcome[1] # "none"

\* The uplink map of a device, from its spanning-tree root records alone.
RECURSIVE C18_Uplinks(_, _)
C18_Uplinks(records, map) ==
    IF records = <<>> THEN map
    ELSE LET port == long_int_name(Head(records)[7])
             vlan == LabelVlan(Head(records)[1])
         IN  C18_Uplinks(Tail(records),
                         IF port = <<>> THEN map ELSE MapPut(map, vlan, port))

\* The matches of a device, from its MAC-table records, its uplink map and the
\* target VLAN set alone.
RECURSIVE C18_Matches(_, _, _)
C18_Matches(table, vlans, uplinks) ==
    IF table = <<>> THEN <<>>
    ELSE LET entry == Head(table)
             rest == C18_Matches(Tail(table), vlans, uplinks)
             vlan == IntVal(entry[1])
             uplink == IF vlan \in DOMAIN uplinks THEN uplinks[vlan] ELSE <<>>
         IN  IF IntOk(entry[1]) /\ vlan \in vlans /\ long_int_name(entry[3]) # uplink
             THEN <<entry>> \o rest
             ELSE rest

C18_Collecting == {"mac_command", "retry", "filter_loop", "end_cisco_session"}

\* C18: per_device_work starts every device with no uplink map, no parse and
\* no match list; the uplink map is a function of the device's own
\* spanning-tree root records, it stays as it is while the MAC table is
\* collected, and the list returned is a function of the device's own
\* MAC-table records, that map and the target VLAN set: it takes the place of
\* what the devices before returned.
C18_NothingCarriedOver ==
    /\ [](pc \in {"start_cisco_session", "stp_command"} =>
            /\ exclude_ports = EmptyMap
            /\ root_results = <<>>
            /\ fsm_results = <<>>
            /\ results = <<>>)
    /\ [](pc = "stp_loop" =>
            exclude_ports = C18_Uplinks(SubSeq(root_results, 1, k - 1), EmptyMap))
    /\ [][/\ (pc \in C18_Collecting /\ pc' \in C18_Collecting) =>
                exclude_ports' = exclude_ports
          /\ (pc = "filter_loop" /\ pc' \in C18_Collecting) =>
                fsm_results' = fsm_results
          /\ (pc = "end_cisco_session" /\ pc' \notin {"except", "aborted"}) =>
                /\ matched_macs' = C18_Matches(fsm_results, vlan_set, exclude_ports)
                /\ matches'[i] = matched_macs']_vars

C18_Witness ==
    /\ pc = "disconnect"
    /\ i = 2
    /\ outcome[1] = "success"
    /\ matches[1] # <<>>
    /\ matched_macs # <<>>
    /\ matched_macs # matches[1]

\* The calls made for a device that succeeds, in order.
C19_Order(fallback) ==
    <<"connect", "start_cisco_session", "show spanning-tree root",
      "show mac address-table">>
        \o (IF fallback THEN <<"show mac-address-table dynamic">> ELSE <<>>)
        \o <<"end_cisco_session", "disconnect", "write">>

C19_IsPrefix(s, t) == Len(s) <= Len(t) /\ s = SubSeq(t, 1, Len(s))

C19_Called(name) == \E n \in 1..Len(trace) : trace[n] = name

\* C19: the calls made for a device are, in this order: connect,
\* start_cisco_session, "show spanning-tree root", "show mac address-table",
\* the fallback command or not, end_cisco_session, disconnect, the writing of
\* the section; a command is sent in automation mode only; and a device whose
\* disconnect raised has a line in the failure log and no section.
C19_OperationOrder ==
    /\ \E fallback \in BOOLEAN : C19_IsPrefix(trace, C19_Order(fallback))
    /\ pc \in {"stp_command", "mac_command", "retry"} => automation_mode
    /\ C19_Called("write") => (pc \in {"for", "done"} /\ outcome[i] = "success")
    /\ (pc \in {"for", "done"} /\ C19_Called("disconnect") /\ FailedDevice(i)) =>
            /\ ~C19_Called("write")
            /\ C2_FailureDevices # <<>>
            /\ C2_FailureDevices[Len(C2_FailureDevices)] = i

C19_Witness ==
    /\ pc = "for"
    /\ trace = C19_Order(TRUE)

\* C20: once the fallback command has been sent, the filter runs on the
\* fallback parse alone: every match is a record of the fallback parse, and a
\* record of the first parse that is not in the fallback parse is no match; an
\* empty fallback parse gives no match.
C20_FallbackAlone ==
    (pc \in {"filter_loop", "end_cisco_session"} /\ replaced # <<>>) =>
        /\ fsm_results = replaced[2]
        /\ C14_Range(results) \subseteq C14_Range(replaced[2])
        /\ \A e \in C14_Range(replaced[1]) \ C14_Range(replaced[2]) :
                e \notin C14_Range(results)
        /\ replaced[2] = <<>> => results = <<>>

C20_Witness ==
    /\ pc = "end_cisco_session"
    /\ replaced # <<>>
    /\ replaced[2] = <<>>
    /\ KeepsEntry(replaced[1][1], vlan_set, exclude_ports)
    /\ results = <<>>

====
